---- MODULE Spec2Model ----
(***************************************************************************)
(* UMPAY payment gateway: order creation, the reconciliation pass          *)
(* (check_payment_confirmations), the expiry sweep (expire_old_orders)     *)
(* and the callback dispatcher of src/umpay/app.py, and the in-memory      *)
(* create_order of src/umpay/index.py.                                     *)
(*                                                                         *)
(* The repository holds two alternative services; one of them is deployed. *)
(* `variant` says which.  app.py keeps the orders in a table with a UNIQUE *)
(* order_id and runs a scheduler thread; index.py keeps them in a dict and *)
(* has no scheduler.                                                       *)
(*                                                                         *)
(* Time is an integer number of minutes on one timeline (the server is     *)
(* taken to run in UTC, so datetime.now() and SQLite's datetime('now')     *)
(* agree).  Amounts of orders are decimal strings; amounts of transfers    *)
(* are raw integers in 10^-6 units.                                        *)
(***************************************************************************)
EXTENDS Integers, Sequences, FiniteSets, TLC

VARIABLES
    variant,    \* "app" (src/umpay/app.py) or "index" (src/umpay/index.py)
    clock,      \* the wall clock, in minutes
    orders,     \* the order store: order_id -> order row, or NoOrder
    rows,       \* app.py: the order_ids in rowid (insertion) order
    resp,       \* the last create_order response sent
    req,        \* index.py: per request thread, the request past the existence check
    sched,      \* app.py: the scheduler thread's position and locals
    callbacks,  \* per order, the number of callback POSTs attempted
    wallets,    \* the configured wallet address of each currency ("" when unset)
    transactions, \* app.py: the rows of the transactions table
    sig         \* the signature codec's last call: parameters, secret, digest

vars == <<variant, clock, orders, rows, resp, req, sched, callbacks,
          wallets, transactions, sig>>

----------------------------------------------------------------------------
(* Bounds of the model *)

MaxTicks == 1
MaxDrift == 1
MaxTransfers == 2
NumThreads == 2

(* Program constants *)

ORDER_EXPIRE_MINUTES == 30
DECIMALS == 1000000

(* The clock advances in steps of one order lifetime, up to MaxClock; the
   clock readings inside one request handler are up to MaxDrift minutes apart. *)
TickMinutes == ORDER_EXPIRE_MINUTES
MaxClock == MaxTicks * TickMinutes
Drifts == 0..MaxDrift

USDT_WALLET_ADDRESS == "TUsdtWallet"
TRX_WALLET_ADDRESS == "TTrxWallet"

----------------------------------------------------------------------------
(* Domains of the inputs *)

OrderIds == {"O1", "O2"}
Merchants == {"M1"}
Amounts == {"1", "abc"}
Currencies == {"USDT", "TRX"}
ReqCurrencies == Currencies \cup {"BTC"}
NoUrl == "none"
Urls == {NoUrl, "http://merchant/cb"}
Threads == 1..NumThreads

NoOrder == [status |-> "absent"]
NoReq == [order_id |-> "none"]
NoResp == [code |-> 0, message |-> "none"]
NoHash == "null"
NoTime == -1
NoSig == [digest |-> "none"]

(* The field a request body lacks: none, one of required_fields (amount
   stands for the four), or the signature. *)
MissingFields == {"none", "amount", "signature"}

(* A create_order request body: the fields, which of them the body lacks, and
   whether its signature verifies.  A lacking field's value is not read. *)
Requests ==
    [order_id : OrderIds, merchant_id : Merchants, amount : Amounts,
     currency : ReqCurrencies, callback_url : Urls, sig_ok : BOOLEAN,
     missing : MissingFields]

(* What the indexer can report. *)
TxIds == {"", "h1", "h2"}
RawAmounts == {DECIMALS - 1, DECIMALS, 2 * DECIMALS}
Addresses == {USDT_WALLET_ADDRESS, TRX_WALLET_ADDRESS}

TrxTxs ==
    [txID : TxIds, contractRet : {"SUCCESS", "REVERT"},
     type : {"TransferContract", "TriggerSmartContract"},
     amount : RawAmounts, to_address : Addresses]

Trc20Transfers ==
    [transaction_id : TxIds, to : Addresses, value : RawAmounts]

----------------------------------------------------------------------------
(* Helpers *)

(* Decimal(order['amount']): the value of a decimal string, or InvalidDecimal
   where Decimal() raises InvalidOperation. *)
InvalidDecimal == -1

DecimalOf(s) ==
    CASE s = "1" -> 1
      [] s = "2" -> 2
      [] OTHER -> InvalidDecimal

(* Decimal(raw) / 1000000: the exact quotient, kept as numerator and denominator. *)
Normalize(raw) == [num |-> raw, den |-> DECIMALS]

(* The comparison made strict. *)
AmountMeets_Strict(amount, expected) == amount.num > expected * amount.den

(* amount >= expected_amount, for a normalized amount and a whole expected amount. *)
AmountMeets(amount, expected) == amount.num >= expected * amount.den

(* The wallet configuration: each address as deployed, or the empty default
   of os.getenv when the variable is not set. *)
NoAddress == ""

WalletConfigs ==
    [USDT : {USDT_WALLET_ADDRESS, NoAddress}, TRX : {TRX_WALLET_ADDRESS, NoAddress}]

Configured == [USDT |-> USDT_WALLET_ADDRESS, TRX |-> TRX_WALLET_ADDRESS]

(* Called after the currency check, so its ValueError branch is not reached. *)
generate_payment_address(currency) ==
    IF currency = "USDT" THEN wallets.USDT ELSE wallets.TRX

Resp(code, message) == [code |-> code, message |-> message]

(* The checks create_order makes before it touches the store: the required
   fields, the signature's presence, the signature, then the currency.  "ok"
   when the request passes. *)
ValidateCreate(d) ==
    IF d.missing \notin {"none", "signature"} THEN Resp(400, "missing field")
    ELSE IF d.missing = "signature" THEN Resp(400, "missing signature")
    ELSE IF ~d.sig_ok THEN Resp(401, "bad signature")
    ELSE IF d.currency \notin Currencies THEN Resp(400, "bad currency")
    ELSE Resp(200, "ok")

(* The row create_order stores. *)
NewOrder(d, created, expires) ==
    [merchant_id |-> d.merchant_id,
     amount |-> d.amount,
     currency |-> d.currency,
     payment_address |-> generate_payment_address(d.currency),
     status |-> "pending",
     transaction_hash |-> NoHash,
     callback_url |-> d.callback_url,
     created_at |-> created,
     expires_at |-> expires,
     confirmed_at |-> NoTime]

(* A store without the UNIQUE constraint. *)
UniqueViolation_Missing(store, id) == FALSE

(* order_id TEXT UNIQUE: the INSERT raises IntegrityError for a stored order_id. *)
UniqueViolation(store, id) == store[id] # NoOrder

(* index.py: data['order_id'] in orders *)
InOrders(store, id) == store[id] # NoOrder

(* WHERE status = 'pending' AND expires_at > datetime('now') *)
IsPending(o, now) == o # NoOrder /\ o.status = "pending" /\ o.expires_at > now

(* The sweep's WHERE clause without its status test. *)
IsExpirable_AnyStatus(o, now) == o # NoOrder /\ o.expires_at <= now

(* WHERE status = 'pending' AND expires_at <= datetime('now') *)
IsExpirable(o, now) == o # NoOrder /\ o.status = "pending" /\ o.expires_at <= now

(* The rows the reconciliation pass selects, in rowid order. *)
SelectPending(store, rowids, now) ==
    SelectSeq(rowids, LAMBDA id : IsPending(store[id], now))

(* An update that claims transfers: it does nothing when another order
   already carries the hash. *)
update_order_status_Claiming(store, id, status, hash, now) ==
    IF \E o \in DOMAIN store :
          o # id /\ store[o] # NoOrder /\ store[o].transaction_hash = hash
    THEN store
    ELSE [store EXCEPT ![id].status = status,
                       ![id].transaction_hash = hash,
                       ![id].confirmed_at = now]

(* update_order_status: with a truthy hash it sets status, transaction_hash and
   confirmed_at; with a falsy one (None, '') it sets the status alone. *)
update_order_status(store, id, status, hash, now) ==
    IF hash # ""
    THEN [store EXCEPT ![id].status = status,
                       ![id].transaction_hash = hash,
                       ![id].confirmed_at = now]
    ELSE [store EXCEPT ![id].status = status]

(* send_callback: nothing without a callback_url, else one POST (whose failure
   is logged and changes nothing). *)
send_callback(cbs, id, row) ==
    IF row.callback_url = NoUrl THEN cbs ELSE [cbs EXCEPT ![id] = @ + 1]

(* The TRX branch's test of one transaction of the indexer's answer. *)
TrxMatches(tx, expected) ==
    /\ tx.contractRet = "SUCCESS"
    /\ tx.type = "TransferContract"
    /\ AmountMeets(Normalize(tx.amount), expected)

(* The USDT branch's test of one token transfer of the indexer's answer. *)
Trc20Matches(tr, address, expected) ==
    /\ tr.to = address
    /\ AmountMeets(Normalize(tr.value), expected)

----------------------------------------------------------------------------
(* The signature codec.  A parameter mapping is a Python dict: a sequence of
   <<key, value>> entries in insertion order, no key twice.  Strings are built
   as sequences of pieces; the MD5 digest is a function of the signed string
   and nothing else. *)

SigKeys == {"amount", "order_id", "signature"}
SigValues == {"1", "2"}
Secrets == {"k1", "k2"}

ParamMappings ==
    {p \in UNION {[1..n -> SigKeys \X SigValues] : n \in 0..Cardinality(SigKeys)} :
        \A i, j \in DOMAIN p : i # j => p[i][1] # p[j][1]}

(* The position of a key in the lexicographic order of str. *)
KeyRank(k) ==
    CASE k = "amount" -> 1
      [] k = "order_id" -> 2
      [] k = "signature" -> 3

(* The tuple comparison of sorted(): by key; the keys of a dict differ, so
   the values are never compared. *)
ParamLess(a, b) == KeyRank(a[1]) < KeyRank(b[1])

RECURSIVE InsertSorted(_, _)
InsertSorted(e, sorted) ==
    IF sorted = <<>> THEN <<e>>
    ELSE IF ParamLess(e, Head(sorted)) THEN <<e>> \o sorted
    ELSE <<Head(sorted)>> \o InsertSorted(e, Tail(sorted))

(* The list left as it came. *)
SortParams_Unsorted(items) == items

(* sorted(items) *)
RECURSIVE SortParams(_)
SortParams(items) ==
    IF items = <<>> THEN <<>>
    ELSE InsertSorted(Head(items), SortParams(Tail(items)))

(* '&'.join([f"{k}={v}" for k, v in sorted_params]) *)
RECURSIVE JoinParams(_)
JoinParams(items) ==
    IF items = <<>> THEN <<>>
    ELSE IF Len(items) = 1 THEN <<items[1][1], "=", items[1][2]>>
    ELSE <<items[1][1], "=", items[1][2], "&">> \o JoinParams(Tail(items))

(* hashlib.md5(sign_string.encode()).hexdigest().upper() *)
MD5Upper(sign_string) == [digest |-> "md5", of |-> sign_string]

generate_signature(data, secret_key) ==
    LET sorted_params ==
            SortParams(SelectSeq(data, LAMBDA e : e[1] # "signature"))
        query_string == JoinParams(sorted_params)
        sign_string == query_string \o <<"&key=", secret_key>>
    IN MD5Upper(sign_string)

(* hmac.compare_digest(signature, expected) *)
verify_signature(data, signature, secret_key) ==
    signature = generate_signature(data, secret_key)

----------------------------------------------------------------------------
(* The scheduler thread.  pc: "idle" between jobs; "fetch" before the indexer
   call for the first order of `pending`; "scan" inside the loop over the
   answer's records, `left` of them to go; "close" at conn.close().
   cur, sawExact, sawMore and allLess record, for the order examined last in
   this pass, whether a successful transfer to its address of exactly the
   expected amount, or of more, was among the records read, and whether every
   record read was below the expected amount; failed, whether the chain
   reader returned None for it. *)

Idle ==
    [pc |-> "idle", pending |-> <<>>, left |-> 0,
     cur |-> "none", sawExact |-> FALSE, sawMore |-> FALSE, allLess |-> FALSE,
     failed |-> FALSE]

(* Leaving the current order and the orders after it. *)
NextOrder_EndsPass(s) ==
    [s EXCEPT !.pending = <<>>, !.left = 0, !.pc = "close"]

(* Leaving the current order: the for loop's next iteration, or its end. *)
NextOrder(s) ==
    [s EXCEPT !.pending = Tail(s.pending),
              !.left = 0,
              !.pc = IF Len(s.pending) > 1 THEN "fetch" ELSE "close"]

(* After one record: the next record, or the next order. *)
NextRecord(s) ==
    IF s.left > 1 THEN [s EXCEPT !.left = s.left - 1] ELSE NextOrder(s)

(* The record just read, noted in sawExact, sawMore and allLess: `paid` says
   that it is a successful transfer to the order's address. *)
Observe(s, paid, raw, expected) ==
    [s EXCEPT !.sawExact = @ \/ (paid /\ raw = expected * DECIMALS),
              !.sawMore = @ \/ (paid /\ raw > expected * DECIMALS),
              !.allLess = @ /\ raw < expected * DECIMALS]

Init ==
    /\ variant \in {"app", "index"}
    /\ clock = 0
    /\ orders = [id \in OrderIds |-> NoOrder]
    /\ rows = <<>>
    /\ resp = NoResp
    /\ req = [t \in Threads |-> NoReq]
    /\ sched = Idle
    /\ callbacks = [id \in OrderIds |-> 0]
    /\ wallets \in WalletConfigs
    /\ transactions = {}
    /\ sig = NoSig

(* Time passes. *)
Tick ==
    /\ clock + TickMinutes <= MaxClock
    /\ clock' = clock + TickMinutes
    /\ UNCHANGED <<wallets, transactions, sig,
                 variant, orders, rows, resp, req, sched, callbacks>>

(* app.py create_order.  The handler reads the clock for expires_at (`read`,
   at most one tick before the INSERT) and the INSERT stamps created_at. *)
AppCreateOrder(d, read) ==
    /\ variant = "app"
    /\ LET v == ValidateCreate(d)
           id == d.order_id
       IN IF v.code # 200
          THEN /\ resp' = v
               /\ UNCHANGED <<orders, rows>>
          ELSE IF UniqueViolation(orders, id)
          THEN /\ resp' = Resp(400, "duplicate")
               /\ UNCHANGED <<orders, rows>>
          ELSE /\ orders' = [orders EXCEPT
                    ![id] = NewOrder(d, clock, read + ORDER_EXPIRE_MINUTES)]
               /\ rows' = Append(rows, id)
               /\ resp' = Resp(200, "ok")
    /\ UNCHANGED <<wallets, transactions, sig,
                 variant, clock, req, sched, callbacks>>

(* index.py create_order up to the existence check and the clock reading for
   expires_at. *)
IndexCreateCheck(t, d) ==
    /\ variant = "index"
    /\ req[t] = NoReq
    /\ LET v == ValidateCreate(d)
           id == d.order_id
       IN IF v.code # 200
          THEN /\ resp' = v
               /\ UNCHANGED req
          ELSE IF InOrders(orders, id)
          THEN /\ resp' = Resp(400, "duplicate")
               /\ UNCHANGED req
          ELSE /\ req' = [req EXCEPT ![t] =
                    [order_id |-> id, data |-> d,
                     expires_at |-> clock + ORDER_EXPIRE_MINUTES]]
               /\ UNCHANGED resp
    /\ UNCHANGED <<wallets, transactions, sig,
                 variant, clock, orders, rows, sched, callbacks>>

(* index.py create_order from the order dict to the response. *)
IndexCreateStore(t) ==
    /\ variant = "index"
    /\ req[t] # NoReq
    /\ orders' = [orders EXCEPT
          ![req[t].order_id] = NewOrder(req[t].data, clock, req[t].expires_at)]
    /\ resp' = Resp(200, "ok")
    /\ req' = [req EXCEPT ![t] = NoReq]
    /\ UNCHANGED <<wallets, transactions, sig,
                 variant, clock, rows, sched, callbacks>>

(* check_payment_confirmations, the SELECT: the scheduler thread starts a
   pass over the orders that are pending and unexpired now. *)
CheckBegin ==
    /\ variant = "app"
    /\ sched.pc = "idle"
    /\ LET sel == SelectPending(orders, rows, clock)
       IN sched' = IF sel = <<>> THEN [Idle EXCEPT !.pc = "close"]
                   ELSE [Idle EXCEPT !.pc = "fetch", !.pending = sel]
    /\ UNCHANGED <<wallets, transactions, sig,
                 variant, clock, orders, rows, resp, req, callbacks>>

(* The loop body up to the indexer's answer: Decimal(order['amount']) raises
   for a malformed amount, which ends the pass in its except clause; otherwise
   the indexer answers with n records, or fails (n = -1), which reads as no
   records. *)
ExamineOrder(n) ==
    /\ sched.pc = "fetch"
    /\ LET id == Head(sched.pending)
           expected == DecimalOf(orders[id].amount)
       IN sched' =
            IF expected = InvalidDecimal THEN Idle
            ELSE LET s == [sched EXCEPT !.cur = id, !.sawExact = FALSE,
                                        !.sawMore = FALSE, !.allLess = TRUE,
                                        !.failed = (n < 0)]
                 IN IF n <= 0 THEN NextOrder(s)
                    ELSE [s EXCEPT !.pc = "scan", !.left = n]
    /\ UNCHANGED <<wallets, transactions, sig,
                 variant, clock, orders, rows, resp, req, callbacks>>

(* One iteration of the TRX branch's loop over transactions['data'].  The
   break after send_callback leaves the loop over the transaction's contracts
   only: the loop over the transactions goes on.  ok says whether the UPDATE
   of update_order_status commits; when it raises, the error is printed and
   swallowed and the caller goes on to send_callback. *)
ScanTrx(tx, ok) ==
    /\ sched.pc = "scan"
    /\ LET id == Head(sched.pending)
           order == orders[id]
           expected == DecimalOf(order.amount)
       IN /\ order.currency = "TRX"
          /\ IF TrxMatches(tx, expected)
             THEN /\ orders' = IF ok
                                THEN update_order_status(orders, id, "completed",
                                                         tx.txID, clock)
                                ELSE orders
                  /\ callbacks' = send_callback(callbacks, id, order)
             ELSE UNCHANGED <<orders, callbacks>>
          /\ sched' = NextRecord(
                Observe(sched,
                        /\ tx.contractRet = "SUCCESS"
                        /\ tx.type = "TransferContract"
                        /\ tx.to_address = order.payment_address,
                        tx.amount, expected))
    /\ UNCHANGED <<wallets, transactions, sig,
                 variant, clock, rows, resp, req>>

(* One iteration of the USDT branch's loop over transfers['data'].  The break
   leaves that loop.  ok as in ScanTrx. *)
ScanTrc20(tr, ok) ==
    /\ sched.pc = "scan"
    /\ LET id == Head(sched.pending)
           order == orders[id]
           expected == DecimalOf(order.amount)
           s == Observe(sched, tr.to = order.payment_address, tr.value, expected)
       IN /\ order.currency = "USDT"
          /\ IF Trc20Matches(tr, order.payment_address, expected)
             THEN /\ orders' = IF ok
                                THEN update_order_status(orders, id, "completed",
                                                         tr.transaction_id, clock)
                                ELSE orders
                  /\ callbacks' = send_callback(callbacks, id, order)
                  /\ sched' = NextOrder(s)
             ELSE /\ UNCHANGED <<orders, callbacks>>
                  /\ sched' = NextRecord(s)
    /\ UNCHANGED <<wallets, transactions, sig,
                 variant, clock, rows, resp, req>>

(* requests.get is called without a timeout: when the indexer never answers,
   the call never returns and the scheduler thread stays in it. *)
IndexerNeverResponds ==
    /\ sched.pc = "fetch"
    /\ DecimalOf(orders[Head(sched.pending)].amount) # InvalidDecimal
    /\ sched' = [sched EXCEPT !.pc = "blocked"]
    /\ UNCHANGED <<wallets, transactions, sig,
                 variant, clock, orders, rows, resp, req, callbacks>>

(* conn.close(): the pass is over. *)
CheckClose ==
    /\ sched.pc = "close"
    /\ sched' = Idle
    /\ UNCHANGED <<wallets, transactions, sig,
                 variant, clock, orders, rows, resp, req, callbacks>>

(* expire_old_orders: one UPDATE, run by the scheduler thread between passes. *)
ExpireOldOrders ==
    /\ variant = "app"
    /\ sched.pc = "idle"
    /\ orders' = [id \in OrderIds |->
                    IF IsExpirable(orders[id], clock)
                    THEN [orders[id] EXCEPT !.status = "expired"]
                    ELSE orders[id]]
    /\ UNCHANGED <<wallets, transactions, sig,
                 variant, clock, rows, resp, req, sched, callbacks>>

----------------------------------------------------------------------------
(* Specifications.  Each draws the inputs of the same actions from its own sets. *)

(* Requests that pass create_order's validation, for a plain amount. *)
ValidRequests ==
    {d \in Requests : /\ d.missing = "none" /\ d.sig_ok
                      /\ d.currency \in Currencies /\ d.amount = "1"}

(* The handler's clock reading for expires_at: now, or up to MaxDrift before. *)
Reads(drifts) == {clock - k : k \in {j \in drifts : j <= clock}}

(* app.py as run from __main__: the request path and the scheduler thread. *)
Next ==
    \/ Tick
    \/ \E d \in ValidRequests, read \in Reads({0}) : AppCreateOrder(d, read)
    \/ CheckBegin
    \/ \E n \in -1..MaxTransfers : ExamineOrder(n)
    \/ \E tx \in TrxTxs : ScanTrx(tx, TRUE)
    \/ \E tr \in Trc20Transfers : ScanTrc20(tr, TRUE)
    \/ CheckClose
    \/ ExpireOldOrders

(* Either service deployed with both wallet addresses set. *)
InitConfigured == Init /\ wallets = Configured

(* app.py deployed, its tables empty. *)
InitApp == InitConfigured /\ variant = "app"

Spec == InitApp /\ [][Next]_vars

(* The request path of either service: create_order alone.  create_order
   stores the amount string as it comes and never reads it, so the request
   bodies carry one amount; signature, currency, order_id and callback_url
   vary.  index.py's threads get the bodies for one order_id. *)
CreateAmounts == {"1"}

(* create_order reads no other field of a body that lacks one, so such
   bodies come in one shape per order_id. *)
Canonical(d) ==
    d.missing # "none" =>
       d.sig_ok /\ d.currency = "USDT" /\ d.callback_url = NoUrl

CreateRequests == {d \in Requests : d.amount \in CreateAmounts /\ Canonical(d)}

IndexRequests == {d \in CreateRequests : d.order_id = "O1"}

NextCreate ==
    \/ Tick
    \/ \E d \in CreateRequests, read \in Reads(Drifts) : AppCreateOrder(d, read)
    \/ \E t \in Threads, d \in IndexRequests : IndexCreateCheck(t, d)
    \/ \E t \in Threads : IndexCreateStore(t)

SpecCreate == InitConfigured /\ [][NextCreate]_vars

(* The same request path under any wallet configuration. *)
SpecConfig == Init /\ [][NextCreate]_vars

(* The signature codec called on any parameter mapping and secret. *)
Sign(p, k) ==
    /\ sig' = [params |-> p, key |-> k, digest |-> generate_signature(p, k)]
    /\ UNCHANGED <<variant, clock, orders, rows, resp, req, sched, callbacks,
                   wallets, transactions>>

NextSign == \E p \in ParamMappings, k \in Secrets : Sign(p, k)

SpecSign == InitApp /\ [][NextSign]_vars

(* app.py with a scheduler thread that keeps running: a pass that has begun
   goes on step by step to its end, and the expiry job, due every five
   minutes, runs again and again. *)
Pass ==
    \/ \E n \in -1..MaxTransfers : ExamineOrder(n)
    \/ \E tx \in TrxTxs : ScanTrx(tx, TRUE)
    \/ \E tr \in Trc20Transfers : ScanTrc20(tr, TRUE)
    \/ CheckClose

FairSpec == Spec /\ WF_vars(Pass) /\ SF_vars(ExpireOldOrders)

(* app.py with requests of any amount string: create_order stores the amount
   unparsed, so "abc" passes validation.  The orders carry no callback_url. *)
AmountRequests ==
    {d \in Requests : /\ d.missing = "none" /\ d.sig_ok
                      /\ d.currency \in Currencies /\ d.callback_url = NoUrl}

NextAmounts ==
    \/ Tick
    \/ \E d \in AmountRequests, read \in Reads({0}) : AppCreateOrder(d, read)
    \/ CheckBegin
    \/ \E n \in -1..MaxTransfers : ExamineOrder(n)
    \/ \E tx \in TrxTxs : ScanTrx(tx, TRUE)
    \/ \E tr \in Trc20Transfers : ScanTrc20(tr, TRUE)
    \/ CheckClose
    \/ ExpireOldOrders

SpecAmounts == InitApp /\ [][NextAmounts]_vars

(* app.py among collaborators that misbehave: the indexer may never answer a
   request, and the UPDATE of update_order_status may raise (a locked or
   unwritable database file); the UPDATE stops failing once MaxTransfers
   callbacks have gone out for an order, which keeps the callback counts
   finite. *)
(* The orders of this scenario all carry a callback_url. *)
FaultRequests == {d \in ValidRequests : d.callback_url # NoUrl}

UpdateOutcomes ==
    IF \A id \in OrderIds : callbacks[id] < MaxTransfers THEN BOOLEAN ELSE {TRUE}

NextFaults ==
    \/ Tick
    \/ \E d \in FaultRequests, read \in Reads({0}) : AppCreateOrder(d, read)
    \/ CheckBegin
    \/ \E n \in -1..MaxTransfers : ExamineOrder(n)
    \/ IndexerNeverResponds
    \/ \E tx \in TrxTxs, ok \in UpdateOutcomes : ScanTrx(tx, ok)
    \/ \E tr \in Trc20Transfers, ok \in UpdateOutcomes : ScanTrc20(tr, ok)
    \/ CheckClose
    \/ ExpireOldOrders

SpecFaults == InitApp /\ [][NextFaults]_vars

(* The steps of a pass that the scheduler thread takes whenever it can; a
   call that never returns is not among them. *)
PassFaults ==
    \/ \E n \in -1..MaxTransfers : ExamineOrder(n)
    \/ \E tx \in TrxTxs, ok \in UpdateOutcomes : ScanTrx(tx, ok)
    \/ \E tr \in Trc20Transfers, ok \in UpdateOutcomes : ScanTrc20(tr, ok)
    \/ CheckClose

FairFaults == SpecFaults /\ WF_vars(PassFaults) /\ SF_vars(ExpireOldOrders)

----------------------------------------------------------------------------
(* Properties *)

Stored(id) == orders[id] # NoOrder

Terminal(id) == Stored(id) /\ orders[id].status \in {"completed", "expired"}

(* C1: once an order is completed or expired, no step changes its status,
   transaction_hash or confirmed_at. *)
C1_TerminalImmutable ==
    [][\A id \in OrderIds :
          Terminal(id) =>
             /\ orders'[id].status = orders[id].status
             /\ orders'[id].transaction_hash = orders[id].transaction_hash
             /\ orders'[id].confirmed_at = orders[id].confirmed_at]_vars

(* C2: an order starts as pending, and its status only ever changes from
   pending to completed or from pending to expired. *)
C2_StatusTransitions ==
    [][\A id \in OrderIds :
          IF Stored(id)
          THEN /\ orders'[id] # NoOrder
               /\ \/ orders'[id].status = orders[id].status
                  \/ /\ orders[id].status = "pending"
                     /\ orders'[id].status \in {"completed", "expired"}
          ELSE orders'[id] = NoOrder \/ orders'[id].status = "pending"]_vars

(* An expired order, while a later pass has read a sufficient successful
   transfer to the same address for another order of the same amount. *)
C2_Witness ==
    \E a, b \in OrderIds :
       /\ a # b /\ Stored(a) /\ Stored(b)
       /\ orders[a].status = "expired"
       /\ sched.cur = b
       /\ sched.sawExact
       /\ orders[b].payment_address = orders[a].payment_address
       /\ orders[b].amount = orders[a].amount

(* The requests for order_id id that pass create_order's validation: a valid
   signature and a supported currency. *)
PassingRequests(id) ==
    [order_id : {id}, merchant_id : Merchants, amount : CreateAmounts,
     currency : Currencies, callback_url : Urls, sig_ok : {TRUE},
     missing : {"none"}]

(* The requests for order_id id with a valid signature. *)
SignedRequests(id) ==
    [order_id : {id}, merchant_id : Merchants, amount : CreateAmounts,
     currency : ReqCurrencies, callback_url : Urls, sig_ok : {TRUE},
     missing : {"none"}]

(* A step in which create_order handles request d up to its answer or, for
   index.py, up to the existence check. *)
CreateStep(d) ==
    IF variant = "app"
    THEN \E read \in Reads(Drifts) : AppCreateOrder(d, read)
    ELSE \E t \in Threads : IndexCreateCheck(t, d)

(* The fields of request d as a stored order has them. *)
HoldsRequest(o, d) ==
    /\ o.merchant_id = d.merchant_id
    /\ o.amount = d.amount
    /\ o.currency = d.currency
    /\ o.callback_url = d.callback_url

(* The step answers with the duplicate error and leaves the store as it is. *)
DuplicateAnswer == resp' = Resp(400, "duplicate") /\ orders' = orders

(* C3 (as amended): a create_order that passes validation (valid signature,
   currency USDT or TRX) succeeds and stores its fields when the order_id is
   not stored, and when the order_id is stored it fails with the duplicate
   error (400), whatever its other fields, and leaves the stored order as the
   first call made it. *)
C3_DuplicateRejected ==
    [][/\ \/ DuplicateAnswer
          \/ ~\E id \in OrderIds :
                 Stored(id) /\ \E d \in PassingRequests(id) : CreateStep(d)
       /\ variant = "app" =>
             \A id \in OrderIds :
                ~Stored(id) =>
                   \A d \in PassingRequests(id), read \in Reads(Drifts) :
                      AppCreateOrder(d, read) =>
                         /\ resp' = Resp(200, "ok")
                         /\ HoldsRequest(orders'[id], d)
       /\ variant = "index" =>
             \A t \in Threads :
                IndexCreateStore(t) =>
                   /\ resp' = Resp(200, "ok")
                   /\ HoldsRequest(orders'[req[t].order_id], req[t].data)]_vars

(* A duplicate error was answered for a stored order. *)
C3_Witness ==
    /\ resp = Resp(400, "duplicate")
    /\ \E id \in OrderIds : Stored(id)

(* C3 as stated: with a valid signature, a create_order for a stored order_id
   fails with the duplicate error whatever its other fields are. *)
C3_AsStated ==
    [][\/ DuplicateAnswer
       \/ ~\E id \in OrderIds :
              Stored(id) /\ \E d \in SignedRequests(id) : CreateStep(d)]_vars

(* C4: create_order's existence check and insertion are atomic: a stored
   order is never overwritten by another request for the same order_id. *)
C4_NeverOverwritten ==
    [][\A id \in OrderIds : Stored(id) => orders'[id] = orders[id]]_vars

(* C5: exactly one callback attempt is made for a completed order that has a
   callback_url, and none for any other order. *)
C5_ExactlyOneCallback ==
    \A id \in OrderIds :
       Stored(id) =>
          callbacks[id] =
             IF orders[id].status = "completed" /\ orders[id].callback_url # NoUrl
             THEN 1 ELSE 0

(* C6: reconciliation never completes an order whose expires_at is not in
   the future at the moment of the update. *)
C6_NoLateCompletion ==
    [][\A id \in OrderIds :
          (/\ Stored(id)
           /\ orders[id].status = "pending"
           /\ orders'[id].status = "completed")
             => orders[id].expires_at > clock]_vars

(* C7: an order that is pending when its expires_at has passed is eventually
   expired. *)
C7_EventuallyExpired ==
    \A id \in OrderIds :
       (Stored(id) /\ orders[id].status = "pending"
           /\ orders[id].expires_at <= clock)
          ~> (orders[id].status = "expired")

(* What does hold under the same fairness: such an order does not stay
   pending; it is expired by the sweep, or completed by a pass that had
   selected it before the deadline. *)
C7_LeavesPending ==
    \A id \in OrderIds :
       (Stored(id) /\ orders[id].status = "pending"
           /\ orders[id].expires_at <= clock)
          ~> (orders[id].status # "pending")

(* C8: for the order a pass is examining, a successful transfer to its
   address of exactly the expected amount, or of more, among the records read
   means the order is completed; while every record read is below the
   expected amount the order stays pending. *)
C8_MatchingThreshold ==
    sched.cur # "none" =>
       /\ sched.sawExact => orders[sched.cur].status = "completed"
       /\ sched.sawMore => orders[sched.cur].status = "completed"
       /\ sched.allLess => orders[sched.cur].status = "pending"

(* A USDT order completed by a transfer of exactly its amount and no larger one. *)
C8_Witness ==
    /\ sched.cur # "none"
    /\ sched.sawExact /\ ~sched.sawMore
    /\ orders[sched.cur].status = "completed"
    /\ orders[sched.cur].currency = "USDT"

(* C9: transaction_hash is set exactly for the completed orders. *)
C9_HashIffCompleted ==
    \A id \in OrderIds :
       Stored(id) =>
          (orders[id].transaction_hash # NoHash <=> orders[id].status = "completed")

(* C10: expires_at is created_at plus ORDER_EXPIRE_MINUTES for every stored
   order. *)
C10_ExpiresAt ==
    \A id \in OrderIds :
       Stored(id) =>
          orders[id].expires_at = orders[id].created_at + ORDER_EXPIRE_MINUTES

(* The failure codes that correspond to what is wrong with request d now:
   400 for a missing field, a currency other than USDT and TRX, or a stored
   order_id; 401 for a signature that does not verify.  Empty when nothing
   is wrong. *)
FailureCodes(d) ==
    IF d.missing # "none" THEN {400}
    ELSE (IF d.sig_ok THEN {} ELSE {401})
         \cup (IF d.currency \in Currencies THEN {} ELSE {400})
         \cup (IF Stored(d.order_id) THEN {400} ELSE {})

(* C11: create_order stores an order only for a request with every field
   present, a signature that verifies, currency USDT or TRX and an order_id
   that is not stored; for any other request it answers with the
   corresponding failure code (400 or 401) and leaves the order store as it
   is. *)
C11_CreateContract ==
    [][/\ \A d \in CreateRequests :
             (FailureCodes(d) # {} /\ CreateStep(d)) =>
                resp'.code \in FailureCodes(d) /\ orders' = orders
       /\ variant = "app" =>
             \A d \in CreateRequests, read \in Reads(Drifts) :
                (AppCreateOrder(d, read) /\ orders' # orders) =>
                   FailureCodes(d) = {}
       /\ variant = "index" =>
             \A t \in Threads :
                IndexCreateStore(t) => FailureCodes(req[t].data) = {}]_vars

(* C12: no stored order has an empty payment_address: with no wallet address
   configured for its currency, create_order stores nothing. *)
C12_NoEmptyAddress ==
    \A id \in OrderIds : Stored(id) => orders[id].payment_address # NoAddress

(* The entries of a mapping other than the one under 'signature'. *)
Unsigned(p) == {p[i] : i \in {j \in DOMAIN p : p[j][1] # "signature"}}

(* C13: the digest of a mapping does not depend on the insertion order of its
   keys nor on an entry under the key 'signature' (added, removed or
   altered), and verify_signature accepts the digest generate_signature
   made for the same mapping and secret. *)
C13_SignatureDeterminism ==
    sig # NoSig =>
       /\ \A q \in ParamMappings :
             Unsigned(q) = Unsigned(sig.params) =>
                generate_signature(q, sig.key) = sig.digest
       /\ verify_signature(sig.params, sig.digest, sig.key)

(* A digest made for a mapping of three keys, 'signature' among them, not
   inserted in sorted order. *)
C13_Witness ==
    /\ sig # NoSig
    /\ Len(sig.params) = 3
    /\ sig.params[1][1] = "signature"
    /\ sig.params[2][1] = "order_id"

(* C14: a reconciliation pass that has begun always ends, whatever the
   indexer and the callback endpoints do, and the scheduler thread is then
   free for its next jobs. *)
C14_CycleTerminates == (sched.pc # "idle") ~> (sched.pc = "idle")

(* C15: while a pass has pending orders left after the one it is at, no step
   ends the pass: it stays at that order or moves on to the next one, also
   when processing the order raises an error. *)
C15_CycleContinues ==
    [][(sched.pc \in {"fetch", "scan"} /\ Len(sched.pending) > 1) =>
          /\ sched'.pc \in {"fetch", "scan"}
          /\ sched'.pending \in {sched.pending, Tail(sched.pending)}]_vars

(* C16: when the chain reader fails for an order, the order stays pending
   with every field as it was, no callback is sent, and the pass goes on to
   the next pending order, or to its end when there is none. *)
C16_ReaderFailure ==
    [][ExamineOrder(-1) =>
          LET id == Head(sched.pending)
          IN /\ orders' = orders
             /\ orders'[id].status = "pending"
             /\ callbacks' = callbacks
             /\ sched'.pending = Tail(sched.pending)
             /\ sched'.pc = IF Tail(sched.pending) # <<>> THEN "fetch" ELSE "close"]_vars

(* The chain reader failed for an order, which is still pending, and the pass
   is at the next order. *)
C16_Witness ==
    /\ sched.failed
    /\ sched.pc = "fetch"
    /\ Head(sched.pending) # sched.cur
    /\ orders[sched.cur].status = "pending"

(* C17: the first qualifying record of the indexer's answer completes the
   order and ends the scan of that answer: no record is scanned for an order
   the pass has completed, so the hash stored by the first qualifying record
   is the one the order has after the pass. *)
C17_FirstQualifyingWins ==
    [][sched.pc = "scan" =>
          LET id == Head(sched.pending)
          IN /\ orders'[id].status = "completed" =>
                   ~(sched'.pc = "scan" /\ Head(sched'.pending) = id)
             /\ orders[id].status = "completed" =>
                   orders'[id].transaction_hash = orders[id].transaction_hash]_vars

(* The hashes that completed orders other than id at id's payment address
   carry. *)
ClaimedByOthers(id) ==
    {orders[o].transaction_hash :
        o \in {x \in OrderIds \ {id} :
                 /\ Stored(x)
                 /\ orders[x].status = "completed"
                 /\ orders[x].transaction_hash # NoHash
                 /\ orders[x].payment_address = orders[id].payment_address}}

(* C18: transfers are not claimed: a record that meets the examined order's
   amount completes it with the record's hash also when another order at the
   same payment address is already completed with that hash. *)
C18_NoClaiming ==
    [][sched.pc = "scan" =>
          LET id == Head(sched.pending)
              expected == DecimalOf(orders[id].amount)
              claimed == ClaimedByOthers(id)
          IN claimed # {} =>
                /\ \A tr \in [transaction_id : claimed, to : Addresses,
                               value : RawAmounts] :
                      (/\ Trc20Matches(tr, orders[id].payment_address, expected)
                       /\ ScanTrc20(tr, TRUE))
                         => /\ orders'[id].status = "completed"
                            /\ orders'[id].transaction_hash = tr.transaction_id
                /\ \A tx \in [txID : claimed,
                               contractRet : {"SUCCESS", "REVERT"},
                               type : {"TransferContract", "TriggerSmartContract"},
                               amount : RawAmounts, to_address : Addresses] :
                      (/\ TrxMatches(tx, expected)
                       /\ ScanTrx(tx, TRUE))
                         => /\ orders'[id].status = "completed"
                            /\ orders'[id].transaction_hash = tx.txID]_vars

(* Two completed orders at one payment address carry the same transaction
   hash. *)
C18_Witness ==
    \E a, b \in OrderIds :
       /\ a # b /\ Stored(a) /\ Stored(b)
       /\ orders[a].status = "completed" /\ orders[b].status = "completed"
       /\ orders[a].payment_address = orders[b].payment_address
       /\ orders[a].transaction_hash # NoHash
       /\ orders[a].transaction_hash = orders[b].transaction_hash

(* C19: for every completed order that carries a transaction hash, the
   transactions table holds a row with the order's id and that hash. *)
C19_TransactionRecorded ==
    \A id \in OrderIds :
       (/\ Stored(id)
        /\ orders[id].status = "completed"
        /\ orders[id].transaction_hash # NoHash)
          => \E r \in transactions :
                r.order_id = id /\ r.tx_hash = orders[id].transaction_hash

(* C20: when a callback goes out for an order with hash h, the store has the
   order as completed with transaction_hash h, and once a callback has gone
   out for an order its stored transaction_hash does not change. *)
C20_CallbackMatchesStore ==
    [][/\ (sched.pc = "scan" /\ callbacks' # callbacks) =>
             LET id == Head(sched.pending)
             IN /\ orders'[id].status = "completed"
                /\ \A tx \in TrxTxs, ok \in BOOLEAN :
                      ScanTrx(tx, ok) => orders'[id].transaction_hash = tx.txID
                /\ \A tr \in Trc20Transfers, ok \in BOOLEAN :
                      ScanTrc20(tr, ok) =>
                         orders'[id].transaction_hash = tr.transaction_id
       /\ \A id \in OrderIds :
             callbacks[id] > 0 =>
                orders'[id].transaction_hash = orders[id].transaction_hash]_vars

(* C21: the order a pass has completed was completed by a successful transfer
   to its payment address: among the records read for it there is one whose
   recipient is that address and whose amount meets the order's. *)
C21_RecipientIsAddress ==
    (sched.cur # "none" /\ orders[sched.cur].status = "completed") =>
       (sched.sawExact \/ sched.sawMore)

(* C22: an order is not completed by a transfer that was in its address's
   history before the order was created: no order carries the hash of the
   transfer that had completed another order at the same address before its
   own creation.  (The records carry no timestamp in the model because the
   pass reads none.) *)
C22_NoEarlierTransfer ==
    \A a, b \in OrderIds :
       (/\ a # b /\ Stored(a) /\ Stored(b)
        /\ orders[a].status = "completed"
        /\ orders[a].transaction_hash # NoHash
        /\ orders[a].confirmed_at # NoTime
        /\ orders[a].confirmed_at < orders[b].created_at
        /\ orders[a].payment_address = orders[b].payment_address)
          => ~(/\ orders[b].status = "completed"
               /\ orders[b].transaction_hash = orders[a].transaction_hash)

====
